---- MODULE Spec2Model ----
(***************************************************************************)
(* Model of endpoints-login.c (lastpass-cli): the login handshake          *)
(* lastpass_login with its helpers append_post, calculate_trust_id,        *)
(* ordinary_login, oob_login and otp_login.                                *)
(*                                                                         *)
(* C strings are TLA+ strings; a NULL pointer is the value NULL.  Three    *)
(* specifications share the variables:                                     *)
(*   Spec       one call of lastpass_login against an arbitrary server     *)
(*   SpecPost   arbitrary sequences of append_post on a zeroed array       *)
(*   SpecTrust  arbitrary sequences of calculate_trust_id                  *)
(***************************************************************************)
EXTENDS Integers, Sequences, FiniteSets, TLC

VARIABLES
    pc,                 \* position of lastpass_login
    trust,              \* parameter: bool trust
    args,               \* char *args[33]
    trusted_id,         \* local trusted_id (return value of calculate_trust_id)
    trusted_label,      \* local trusted_label
    cause,              \* local cause
    reply,              \* local reply (last server response)
    otp_name,           \* local otp_name
    login_server,       \* local login_server
    session,            \* local session
    message,            \* *error_message of the caller
    can_do_passcode,    \* oob_login local
    retryid,            \* oob_login local
    replied_multifactor,\* otp_login local: index into multifactor_types, 0 = NULL
    multifactor_error,  \* otp_login local
    config_trusted_id,  \* configuration store, key "trusted_id"
    configWrites,       \* number of config_write_string calls so far
    lastPost,           \* the most recent login.php request
    nPosts,             \* number of login.php requests sent
    ordPosts,           \* number of them sent by ordinary_login
    trustCalls,         \* number of trust.php requests sent
    tokenRead,          \* how session->token was read for trust.php
    prompts,            \* number of password_prompt calls
    lastPrompt,         \* arguments of the most recent password_prompt
    dots,               \* progress characters written
    statusLine,         \* out-of-band status line
    redirected,         \* ordinary_login followed a server redirection
    ord_server,         \* ordinary_login parameter login_server
    user_lower,         \* local user_lower
    ret,                \* bool returned by the helper that ran last
    statusClears,       \* number of times the status line was cleared
    absentRead,         \* a field was extracted from an absent reply
    setLog,             \* SpecPost: the append_post calls made so far
    calls               \* SpecTrust: number of calculate_trust_id calls

loginVars == <<pc, trust, trusted_label, cause, reply, otp_name, login_server,
               session, message, can_do_passcode, retryid, replied_multifactor,
               multifactor_error, lastPost, nPosts, ordPosts, trustCalls,
               tokenRead, prompts, lastPrompt, dots, statusLine, redirected,
               ord_server, user_lower, ret, statusClears, absentRead>>

vars == <<pc, trust, args, trusted_id, trusted_label, cause, reply, otp_name,
          login_server, session, message, can_do_passcode, retryid,
          replied_multifactor, multifactor_error, config_trusted_id,
          configWrites, lastPost, nPosts, ordPosts, trustCalls, tokenRead,
          prompts, lastPrompt, dots, statusLine, redirected, ord_server,
          user_lower, ret, statusClears, absentRead, setLog, calls>>

(***************************************************************************)
(* Bounds of the model                                                     *)
(***************************************************************************)
MaxSets == 3

MaxCalls == 3

MaxPosts == 4

MaxPrompts == 2

(***************************************************************************)
(* C strings                                                               *)
(***************************************************************************)
NULL == "<NULL>"

\* the string terminator, as the value of a char
NUL == ""

\* s[i] of a string literal s, 0-based; s[strlen(s)] is the terminator
CharAt(s, i) == IF i < Len(s) THEN SubSeq(s, i + 1, i + 1) ELSE NUL

RECURSIVE CStrFrom(_, _)
\* the C string held by a char buffer: the chars before the first terminator
CStrFrom(buf, i) ==
    IF i > Len(buf) \/ buf[i] = NUL THEN "" ELSE buf[i] \o CStrFrom(buf, i + 1)

CStr(buf) == CStrFrom(buf, 1)

\* strstr: 1-based position of the first occurrence of needle, 0 if none
StrStr(hay, needle) ==
    LET hits == {i \in 1..(Len(hay) + 1) :
                    /\ i + Len(needle) - 1 <= Len(hay)
                    /\ SubSeq(hay, i, i + Len(needle) - 1) = needle}
    IN IF hits = {} THEN 0 ELSE CHOOSE i \in hits : \A j \in hits : i <= j

(***************************************************************************)
(* calculate_trust_id                                                      *)
(***************************************************************************)
TrustIdLen == 32

TrustIdBuf == 33

TrustAlphabet == "abcdefghijklmnopqrstuvwxyzABCDEFGHIJKLMNOPQRSTUVWXYZ1234567890!@#$"

\* range_rand(min, max): the values the random source may return. The
\* source is documented as uniform(min, max) -> integer with no bound
\* excluded, and the requested range 0..66 as giving 67 outcomes: every
\* integer from min to max, both included.
range_rand(min, max) == min..max

\* the indices range_rand(0, 66) may return at line 113; the literal has 66
\* characters, so index 66 reads its terminator
TrustIdIndices == range_rand(0, 66)

\* the random draws of one generation, one stream per rotation of the index
\* range: every index is drawn at every position by some stream
RandStreams ==
    {[i \in 1..TrustIdLen |->
        CHOOSE x \in TrustIdIndices :
            x = (k + i - 1) % Cardinality(TrustIdIndices)] :
        k \in TrustIdIndices}

\* xcalloc(33, 1) followed by the loop filling trusted_id[0..31]
GenerateTrustId(stream) ==
    CStr([i \in 1..TrustIdBuf |->
            IF i <= TrustIdLen THEN CharAt(TrustAlphabet, stream[i]) ELSE NUL])

\* config_read_string("trusted_id") on a store holding stored
config_read_string(stored) == stored

calculate_trust_id_AlwaysForce(force, stored, stream) ==
    IF force
    THEN [ret |-> GenerateTrustId(stream), store |-> GenerateTrustId(stream),
          wrote |-> TRUE]
    ELSE [ret |-> config_read_string(stored), store |-> stored, wrote |-> FALSE]

calculate_trust_id_NoCreate(force, stored, stream) ==
    [ret |-> config_read_string(stored), store |-> stored, wrote |-> FALSE]

\* ret: the returned pointer; store: the configuration store afterwards;
\* wrote: config_write_string was called
calculate_trust_id(force, stored, stream) ==
    LET id == config_read_string(stored)
    IN IF force /\ id = NULL
       THEN [ret |-> GenerateTrustId(stream), store |-> GenerateTrustId(stream),
             wrote |-> TRUE]
       ELSE [ret |-> id, store |-> stored, wrote |-> FALSE]

(***************************************************************************)
(* append_post                                                             *)
(***************************************************************************)
ArgSlots == 33

\* memset(args, 0, sizeof(args))
ZeroArgs == [i \in 1..ArgSlots |-> NULL]

\* the slot where the scan of append_post stops: the first slot that is NULL
\* or equal to name; ArgSlots + 1 when the scan runs off the array
ScanStop(a, name) ==
    LET stops == {i \in 1..ArgSlots : a[i] = NULL \/ a[i] = name}
    IN IF stops = {} THEN ArgSlots + 1
       ELSE CHOOSE i \in stops : \A j \in stops : i <= j

\* append_post writes outside args[0..32]
PostOverflows(a, name) == ScanStop(a, name) + 1 > ArgSlots

append_post_AlwaysAppend(a, name, val) ==
    LET last == ScanStop(a, NULL)
    IN [a EXCEPT ![last] = name, ![last + 1] = val]

\* the array after append_post(args, name, val), for a call that stays inside it
append_post(a, name, val) ==
    LET last == ScanStop(a, name)
    IN [a EXCEPT ![last] = name, ![last + 1] = val]

\* number of slots before the first NULL
RECURSIVE ArgLen(_, _)
ArgLen(a, i) == IF i > ArgSlots \/ a[i] = NULL THEN i - 1 ELSE ArgLen(a, i + 1)

\* the (name, value) pairs a reader of the array sees: slots 2k, 2k+1 up to the
\* first NULL name
RECURSIVE PairsFrom(_, _)
PairsFrom(a, i) ==
    IF i > ArgSlots \/ a[i] = NULL THEN <<>>
    ELSE <<[name |-> a[i], val |-> IF i + 1 > ArgSlots THEN NULL ELSE a[i + 1]]>>
         \o PairsFrom(a, i + 2)

Pairs(a) == PairsFrom(a, 1)

HasField(a, name) ==
    LET ps == Pairs(a)
    IN \E k \in 1..Len(ps) : ps[k].name = name

FieldValue(a, name) ==
    LET ps == Pairs(a)
        ks == {k \in 1..Len(ps) : ps[k].name = name}
    IN IF ks = {} THEN NULL
       ELSE ps[CHOOSE k \in ks : \A j \in ks : k <= j].val

(***************************************************************************)
(* Conversions used by lastpass_login                                      *)
(***************************************************************************)
UpperCase == "ABCDEFGHIJKLMNOPQRSTUVWXYZ"

LowerCase == "abcdefghijklmnopqrstuvwxyz"

\* tolower of one char
ToLower(c) ==
    LET p == StrStr(UpperCase, c) IN IF p = 0 THEN c ELSE SubSeq(LowerCase, p, p)

RECURSIVE xstrlower(_)
xstrlower(s) ==
    IF s = "" THEN "" ELSE ToLower(SubSeq(s, 1, 1)) \o xstrlower(SubSeq(s, 2, Len(s)))

DecimalDigit(d) == SubSeq("0123456789", d + 1, d + 1)

RECURSIVE xultostr(_)
\* the decimal representation of an unsigned long
xultostr(n) ==
    IF n < 10 THEN DecimalDigit(n) ELSE xultostr(n \div 10) \o DecimalDigit(n % 10)

\* xasprintf("%s - %s %s", nodename, sysname, release)
calculate_trust_label(u) == u.nodename \o " - " \o u.sysname \o " " \o u.release

UpgradeSuffix == " Upgrade your browser extension so you can enter it."

\* cut the message at the first occurrence of the upgrade hint
filter_error_message(m) ==
    LET nullit == StrStr(m, UpgradeSuffix)
    IN IF nullit = 0 THEN m ELSE SubSeq(m, 1, nullit - 1)

RECURSIVE StrTokens(_, _)
\* the tokens strtok(caps, ",") yields: maximal runs of non-comma chars;
\* cur is the token being read
StrTokens(s, cur) ==
    IF s = "" THEN (IF cur = "" THEN <<>> ELSE <<cur>>)
    ELSE IF SubSeq(s, 1, 1) = ","
         THEN (IF cur = "" THEN <<>> ELSE <<cur>>) \o StrTokens(SubSeq(s, 2, Len(s)), "")
         ELSE StrTokens(SubSeq(s, 2, Len(s)), cur \o SubSeq(s, 1, 1))

has_capabilities_Substring(capabilities, capability) ==
    StrStr(capabilities, capability) # 0

has_capabilities(capabilities, capability) ==
    \E k \in 1..Len(StrTokens(capabilities, "")) :
        StrTokens(capabilities, "")[k] = capability

(***************************************************************************)
(* multifactor_types                                                       *)
(***************************************************************************)
multifactor_types_NoOutOfBand == <<
    [name |-> "Google Authenticator Code", error_str |-> "googleauthrequired",
     error_failure_str |-> "googleauthfailed", post_var |-> "otp"],
    [name |-> "YubiKey OTP", error_str |-> "otprequired",
     error_failure_str |-> "otpfailed", post_var |-> "otp"],
    [name |-> "Sesame OTP", error_str |-> "sesameotprequired",
     error_failure_str |-> "sesameotpfailed", post_var |-> "sesameotp"],
    [name |-> "Microsoft Authenticator Code", error_str |-> "microsoftauthrequired",
     error_failure_str |-> "microsoftauthfailed", post_var |-> "otp"] >>

multifactor_types == <<
    [name |-> "Google Authenticator Code", error_str |-> "googleauthrequired",
     error_failure_str |-> "googleauthfailed", post_var |-> "otp"],
    [name |-> "YubiKey OTP", error_str |-> "otprequired",
     error_failure_str |-> "otpfailed", post_var |-> "otp"],
    [name |-> "Sesame OTP", error_str |-> "sesameotprequired",
     error_failure_str |-> "sesameotpfailed", post_var |-> "sesameotp"],
    [name |-> "Out-of-Band OTP", error_str |-> "outofbandrequired",
     error_failure_str |-> "multifactorresponsefailed", post_var |-> "otp"],
    [name |-> "Microsoft Authenticator Code", error_str |-> "microsoftauthrequired",
     error_failure_str |-> "microsoftauthfailed", post_var |-> "otp"] >>

FindMultifactor_Substring(c) ==
    LET hits == {i \in 1..Len(multifactor_types) :
                    StrStr(c, multifactor_types[i].error_str) # 0}
    IN IF hits = {} THEN 0 ELSE CHOOSE i \in hits : \A j \in hits : i <= j

\* the loop of otp_login over the table: index of the first entry whose
\* error_str equals c, 0 (replied_multifactor == NULL) if none
FindMultifactor(c) ==
    LET hits == {i \in 1..Len(multifactor_types) : multifactor_types[i].error_str = c}
    IN IF hits = {} THEN 0 ELSE CHOOSE i \in hits : \A j \in hits : i <= j

(***************************************************************************)
(* Server responses and sessions                                           *)
(***************************************************************************)
LASTPASS_SERVER == "lastpass.com"

EuServer == "lastpass.eu"

\* http_post_lastpass_v returned NULL
NoReply == [present |-> FALSE, ok |-> FALSE, server |-> NULL, cause |-> NULL,
            message |-> NULL, outofbandname |-> NULL, capabilities |-> NULL,
            retryid |-> NULL]

NoSession == [valid |-> FALSE, token |-> NULL, server |-> NULL]

\* xml_ok_session(reply, key): the session of an <ok> response, NULL otherwise
xml_ok_session(r) ==
    IF r.present /\ r.ok THEN [valid |-> TRUE, token |-> "token", server |-> NULL]
    ELSE NoSession

SessionAt_Primary(r, server) == [xml_ok_session(r) EXCEPT !.server = "lastpass.com"]

\* *session = xml_ok_session(*reply, key); (*session)->server = xstrdup(login_server)
SessionAt(r, server) == [xml_ok_session(r) EXCEPT !.server = server]

\* xml_error_cause(reply, field): the attribute of the response's error
\* element, or NULL when the response has none
xml_error_cause(r, field) == IF r.present THEN r[field] ELSE NULL

(***************************************************************************)
(* error_post, error_other, error_message: the session and the message     *)
(* they leave behind (the caller passes a message slot)                    *)
(***************************************************************************)
error_post ==
    [session |-> NoSession, message |-> "Unable to post login request.", ret |-> TRUE]

error_other_NoMessage(txt) == [session |-> NoSession, message |-> NULL, ret |-> TRUE]

error_other(txt) == [session |-> NoSession, message |-> txt, ret |-> TRUE]

error_message_ReturnsFalse(r) ==
    LET m == xml_error_cause(r, "message")
    IN [session |-> NoSession,
        message |-> IF m # NULL THEN filter_error_message(m)
                    ELSE "Could not parse error message to login request.",
        ret |-> FALSE]

error_message(r) ==
    LET m == xml_error_cause(r, "message")
    IN [session |-> NoSession,
        message |-> IF m # NULL THEN filter_error_message(m)
                    ELSE "Could not parse error message to login request.",
        ret |-> TRUE]

(***************************************************************************)
(* Inputs of one login                                                     *)
(***************************************************************************)
Usernames == {"User@Example.com"}

Hashes == {"a1b2c3d4"}

Iterations == {100100}

Fragments == {NULL, "frag01"}

Codes == {"123456", "654321"}

Unames == {[nodename |-> "host", sysname |-> "Linux", release |-> "6.1"]}

ConstStream(b) == [i \in 1..TrustIdLen |-> b]

\* the random draws available to the generation inside one login
LoginStreams == {ConstStream(0)}

\* what the configuration store may hold before the login: nothing, or an id
\* generated by an earlier run
PersistedIds == {NULL, GenerateTrustId(ConstStream(1))}

ReplyServers == {NULL, EuServer, "lastpass.example"}

\* causes that arrive with every combination of server and message
ReplyCauses == {NULL, "outofbandrequired", "googleauthrequired"}

\* the other causes: the remaining challenges, wrong-code causes, and causes
\* of no challenge
OtherCauses == {"otprequired", "sesameotprequired", "microsoftauthrequired",
                "googleauthfailed", "otpfailed", "sesameotpfailed",
                "multifactorresponsefailed", "microsoftauthfailed",
                "unknownemail"}

ReplyMessages == {NULL, "Invalid password!",
                  "Multifactor needed." \o UpgradeSuffix \o " Now."}

ReplyCapabilities == {NULL, "passcode", "outofband", "passcode,outofband",
                      "passcodes", "outofband2,passcode"}

ReplyRetryIds == {NULL, "r1", "r2"}

OkReplies ==
    {[NoReply EXCEPT !.present = TRUE, !.ok = TRUE, !.server = s] :
        s \in {NULL, EuServer}}

ErrReplies ==
    {[NoReply EXCEPT !.present = TRUE, !.server = s, !.cause = c, !.message = m] :
        s \in ReplyServers, c \in ReplyCauses, m \in ReplyMessages}
    \cup
    {[NoReply EXCEPT !.present = TRUE, !.cause = c, !.message = m] :
        c \in OtherCauses, m \in ReplyMessages}

\* out-of-band responses: the ones naming the method and its capabilities,
\* and the ones carrying a retryid
OobReplies ==
    {[NoReply EXCEPT !.present = TRUE, !.cause = "outofbandrequired",
                     !.outofbandname = n, !.capabilities = k] :
        n \in {NULL, "Duo Push"}, k \in ReplyCapabilities}
    \cup
    {[NoReply EXCEPT !.present = TRUE, !.cause = "outofbandrequired",
                     !.retryid = i] : i \in ReplyRetryIds}

\* the outcomes of http_post_lastpass_v: a response, or NULL
Replies == {NoReply} \cup OkReplies \cup ErrReplies \cup OobReplies

\* the cause and retryid of the response a request follows
PriorOf(r) == [cause |-> xml_error_cause(r, "cause"),
               retryid |-> xml_error_cause(r, "retryid")]

\* a request: where it went, its fields, the function that sent it, its rank
\* among the requests of that function, the response and sender before it
Request(server, a, by, last, r) ==
    [server |-> server, args |-> a, by |-> by,
     k |-> IF last.by = by THEN last.k + 1 ELSE 1,
     prior |-> PriorOf(r), priorBy |-> last.by]

NoPost == [server |-> NULL, args |-> ZeroArgs, by |-> "none", k |-> 0,
           prior |-> PriorOf(NoReply), priorBy |-> "none"]

NoPrompt == [error |-> NULL, name |-> NULL, user |-> NULL, code |-> NULL]

(***************************************************************************)
(* lastpass_login, lines 328-345: the initial form fields                  *)
(***************************************************************************)
InitialArgs(user, hash, iters, fragment, tid) ==
    LET a1 == append_post(ZeroArgs, "xml", "2")
        a2 == append_post(a1, "username", user)
        a3 == append_post(a2, "hash", hash)
        a4 == append_post(a3, "iterations", iters)
        a5 == append_post(a4, "includeprivatekeyenc", "1")
        a6 == append_post(a5, "method", "cli")
        a7 == append_post(a6, "outofbandsupported", "1")
        a9 == IF fragment # NULL
              THEN append_post(append_post(a7, "alpfragmentid", fragment),
                               "calculatedfragmentid", fragment)
              ELSE a7
    IN IF tid # NULL THEN append_post(a9, "uuid", tid) ELSE a9

Start ==
    /\ pc = "start"
    /\ \E username \in Usernames, hash \in Hashes, iterations \in Iterations,
          fragment \in Fragments, stream \in LoginStreams :
          LET t == calculate_trust_id(trust, config_trusted_id, stream)
          IN /\ user_lower' = xstrlower(username)
             /\ trusted_id' = t.ret
             /\ config_trusted_id' = t.store
             /\ configWrites' = configWrites + (IF t.wrote THEN 1 ELSE 0)
             /\ args' = InitialArgs(xstrlower(username), hash, xultostr(iterations),
                                    fragment, t.ret)
    /\ ord_server' = LASTPASS_SERVER
    /\ pc' = "ordinary"
    /\ UNCHANGED <<trust, trusted_label, cause, reply, otp_name, login_server,
                 session, message, can_do_passcode, retryid,
                 replied_multifactor, multifactor_error, lastPost,
                 nPosts, ordPosts, trustCalls, tokenRead, prompts,
                 lastPrompt, dots, statusLine, redirected, ret,
                 statusClears, absentRead, setLog, calls>>

(***************************************************************************)
(* ordinary_login: one activation (one POST); a redirection re-enters it   *)
(***************************************************************************)
IsRedirect_AnyServer(server) == server # NULL

\* line 182: server && strcmp(server, "lastpass.eu") == 0
IsRedirect(server) == server # NULL /\ server = "lastpass.eu"

ordinary_login ==
    /\ pc = "ordinary"
    /\ nPosts < MaxPosts
    /\ \E r \in Replies :
        /\ reply' = r
        /\ lastPost' = Request(ord_server, args, "ordinary", lastPost, reply)
        /\ nPosts' = nPosts + 1
        /\ ordPosts' = ordPosts + 1
        /\ IF ~r.present
           THEN /\ session' = error_post.session
                /\ message' = error_post.message
                /\ ret' = error_post.ret
                /\ pc' = "after_ordinary"
                /\ UNCHANGED <<ord_server, redirected, cause, login_server>>
           ELSE IF xml_ok_session(r).valid
           THEN /\ session' = SessionAt(r, ord_server)
                /\ ret' = TRUE
                /\ pc' = "after_ordinary"
                /\ UNCHANGED <<message, ord_server, redirected, cause, login_server>>
           ELSE IF IsRedirect(xml_error_cause(r, "server"))
           THEN /\ ord_server' = xml_error_cause(r, "server")
                /\ redirected' = TRUE
                /\ session' = NoSession
                /\ pc' = "ordinary"
                /\ UNCHANGED <<message, ret, cause, login_server>>
           ELSE IF xml_error_cause(r, "cause") = NULL
           THEN /\ cause' = NULL
                /\ session' = error_other("Unable to determine login failure cause.").session
                /\ message' = error_other("Unable to determine login failure cause.").message
                /\ ret' = error_other("Unable to determine login failure cause.").ret
                /\ pc' = "after_ordinary"
                /\ UNCHANGED <<ord_server, redirected, login_server>>
           ELSE /\ cause' = xml_error_cause(r, "cause")
                /\ login_server' = ord_server
                /\ session' = NoSession
                /\ ret' = FALSE
                /\ pc' = "after_ordinary"
                /\ UNCHANGED <<message, ord_server, redirected>>
    /\ UNCHANGED <<trust, args, trusted_id, trusted_label, otp_name,
                 can_do_passcode, retryid, replied_multifactor,
                 multifactor_error, config_trusted_id, configWrites,
                 trustCalls, tokenRead, prompts, lastPrompt, dots,
                 statusLine, user_lower, statusClears, absentRead,
                 setLog, calls>>

(***************************************************************************)
(* lastpass_login, lines 347-355: return, or attach trustlabel and go on   *)
(***************************************************************************)
TrustLabelArgs_Always(a, t, label) == append_post(a, "trustlabel", label)

\* lines 350-353: if (trust) append_post(args, "trustlabel", trusted_label)
TrustLabelArgs(a, t, label) == IF t THEN append_post(a, "trustlabel", label) ELSE a

after_ordinary ==
    /\ pc = "after_ordinary"
    /\ IF ret
       THEN /\ pc' = "done"
            /\ UNCHANGED <<trusted_label, args>>
       ELSE IF trust
       THEN \E unameOk \in BOOLEAN, u \in Unames :
            IF ~unameOk
            THEN \* uname failed: die_errno ends the process
                 /\ pc' = "died"
                 /\ UNCHANGED <<trusted_label, args>>
            ELSE /\ trusted_label' = calculate_trust_label(u)
                 /\ args' = TrustLabelArgs(args, trust, calculate_trust_label(u))
                 /\ pc' = IF cause # NULL /\ cause = "outofbandrequired"
                          THEN "oob" ELSE "otp"
       ELSE /\ pc' = IF cause # NULL /\ cause = "outofbandrequired"
                     THEN "oob" ELSE "otp"
            /\ args' = TrustLabelArgs(args, trust, trusted_label)
            /\ UNCHANGED trusted_label
    /\ UNCHANGED <<trust, trusted_id, cause, reply, otp_name, login_server,
                 session, message, can_do_passcode, retryid,
                 replied_multifactor, multifactor_error,
                 config_trusted_id, configWrites, lastPost, nPosts,
                 ordPosts, trustCalls, tokenRead, prompts, lastPrompt,
                 dots, statusLine, redirected, ord_server, user_lower,
                 ret, statusClears, absentRead, setLog, calls>>

(***************************************************************************)
(* oob_login                                                               *)
(***************************************************************************)
OobSuffix == " OTP"

\* lines 214-225: read the out-of-band type, decide between polling and the
\* passcode prompt
oob_login_begin ==
    /\ pc = "oob"
    /\ absentRead' = (absentRead \/ ~reply.present)
    /\ LET name == xml_error_cause(reply, "outofbandname")
           caps == xml_error_cause(reply, "capabilities")
       IN IF name = NULL \/ caps = NULL
          THEN /\ otp_name' = name
               /\ session' = error_other("Could not determine out-of-band type.").session
               /\ message' = error_other("Could not determine out-of-band type.").message
               /\ ret' = error_other("Could not determine out-of-band type.").ret
               /\ pc' = "after_oob"
               /\ UNCHANGED <<can_do_passcode, statusLine, args>>
          ELSE IF has_capabilities(caps, "passcode")
                  /\ ~has_capabilities(caps, "outofband")
          THEN /\ can_do_passcode' = TRUE
               /\ otp_name' = name \o OobSuffix
               /\ ret' = FALSE
               /\ pc' = "oob_out"
               /\ UNCHANGED <<session, message, statusLine, args>>
          ELSE /\ can_do_passcode' = has_capabilities(caps, "passcode")
               /\ otp_name' = name
               /\ statusLine' = "shown"
               /\ args' = append_post(args, "outofbandrequest", "1")
               /\ pc' = "oob_poll"
               /\ UNCHANGED <<session, message, ret>>
    /\ UNCHANGED <<trust, trusted_id, trusted_label, cause, reply,
                 login_server, retryid, replied_multifactor,
                 multifactor_error, config_trusted_id, configWrites,
                 lastPost, nPosts, ordPosts, trustCalls, tokenRead,
                 prompts, lastPrompt, dots, redirected, ord_server,
                 user_lower, statusClears, setLog, calls>>

RetryArgs_NoRetryId(a, rid) == append_post(a, "outofbandretry", "1")

\* lines 252-253: the continuation markers of the next poll
RetryArgs(a, rid) ==
    append_post(append_post(a, "outofbandretry", "1"), "outofbandretryid", rid)

\* lines 226-259: one iteration of the poll loop
oob_login_poll ==
    /\ pc = "oob_poll"
    /\ nPosts < MaxPosts
    /\ \E r \in Replies :
        /\ reply' = r
        /\ lastPost' = Request(login_server, args, "oob", lastPost, reply)
        /\ nPosts' = nPosts + 1
        /\ IF ~r.present
           THEN IF can_do_passcode
                THEN /\ args' = append_post(
                                  append_post(
                                    append_post(args, "outofbandrequest", "0"),
                                    "outofbandretry", "0"),
                                  "outofbandretryid", "")
                     /\ otp_name' = otp_name \o OobSuffix
                     /\ ret' = FALSE
                     /\ pc' = "oob_out"
                     /\ UNCHANGED <<session, message, retryid, dots>>
                ELSE /\ session' = error_post.session
                     /\ message' = error_post.message
                     /\ ret' = TRUE
                     /\ pc' = "oob_out"
                     /\ UNCHANGED <<args, otp_name, retryid, dots>>
           ELSE IF xml_ok_session(r).valid
           THEN /\ session' = SessionAt(r, login_server)
                /\ ret' = TRUE
                /\ pc' = "oob_out"
                /\ UNCHANGED <<args, otp_name, message, retryid, dots>>
           ELSE IF xml_error_cause(r, "cause") # NULL
                   /\ xml_error_cause(r, "cause") = "outofbandrequired"
           THEN /\ retryid' = xml_error_cause(r, "retryid")
                /\ args' = RetryArgs(args, xml_error_cause(r, "retryid"))
                /\ dots' = dots + 1
                /\ pc' = "oob_poll"
                /\ UNCHANGED <<session, message, otp_name, ret>>
           ELSE /\ session' = error_message(r).session
                /\ message' = error_message(r).message
                /\ ret' = TRUE
                /\ pc' = "oob_out"
                /\ UNCHANGED <<args, otp_name, retryid, dots>>
    /\ UNCHANGED <<trust, trusted_id, trusted_label, cause, login_server,
                 can_do_passcode, replied_multifactor,
                 multifactor_error, config_trusted_id, configWrites,
                 ordPosts, trustCalls, tokenRead, prompts, lastPrompt,
                 statusLine, redirected, ord_server, user_lower,
                 statusClears, absentRead, setLog, calls>>

oob_login_out_NoClear ==
    /\ pc = "oob_out"
    /\ pc' = "after_oob"
    /\ UNCHANGED <<trust, args, trusted_id, trusted_label, cause, reply,
                 otp_name, login_server, session, message, can_do_passcode,
                 retryid, replied_multifactor, multifactor_error,
                 config_trusted_id, configWrites, lastPost, nPosts, ordPosts,
                 trustCalls, tokenRead, prompts, lastPrompt, dots, statusLine,
                 redirected, ord_server, user_lower, ret, statusClears,
                 absentRead, setLog, calls>>

\* lines 261-269: write the terminal sequence that clears the status line
\* (written also when the line was never shown) and return
oob_login_out ==
    /\ pc = "oob_out"
    /\ statusLine' = (IF statusLine = "shown" THEN "cleared" ELSE statusLine)
    /\ statusClears' = statusClears + 1
    /\ pc' = "after_oob"
    /\ UNCHANGED <<trust, args, trusted_id, trusted_label, cause, reply,
                 otp_name, login_server, session, message,
                 can_do_passcode, retryid, replied_multifactor,
                 multifactor_error, config_trusted_id, configWrites,
                 lastPost, nPosts, ordPosts, trustCalls, tokenRead,
                 prompts, lastPrompt, dots, redirected, ord_server,
                 user_lower, ret, absentRead, setLog, calls>>

(***************************************************************************)
(* lastpass_login, lines 355-360: after oob_login                          *)
(***************************************************************************)
\* what evaluating session->token can do: with a session, read its token;
\* without one it dereferences NULL, which may end the process or yield garbage
TokenReadOutcomes(s) == IF s.valid THEN {"valid"} ELSE {"crash", "garbage"}

after_oob ==
    /\ pc = "after_oob"
    /\ IF ret
       THEN IF trust
            THEN \E o \in TokenReadOutcomes(session) :
                    /\ tokenRead' = o
                    /\ IF o = "crash"
                       THEN /\ pc' = "crashed"
                            /\ UNCHANGED trustCalls
                       ELSE /\ trustCalls' = trustCalls + 1
                            /\ pc' = "done"
            ELSE /\ pc' = "done"
                 /\ UNCHANGED <<tokenRead, trustCalls>>
       ELSE /\ pc' = "otp"
            /\ UNCHANGED <<tokenRead, trustCalls>>
    /\ UNCHANGED <<trust, args, trusted_id, trusted_label, cause, reply,
                 otp_name, login_server, session, message,
                 can_do_passcode, retryid, replied_multifactor,
                 multifactor_error, config_trusted_id, configWrites,
                 lastPost, nPosts, ordPosts, prompts, lastPrompt, dots,
                 statusLine, redirected, ord_server, user_lower, ret,
                 statusClears, absentRead, setLog, calls>>

(***************************************************************************)
(* otp_login                                                               *)
(***************************************************************************)
\* lines 279-286: look the cause up in multifactor_types
otp_login_begin ==
    /\ pc = "otp"
    /\ IF FindMultifactor(cause) = 0
       THEN /\ absentRead' = (absentRead \/ ~reply.present)
            /\ session' = error_message(reply).session
            /\ message' = error_message(reply).message
            /\ ret' = error_message(reply).ret
            /\ pc' = "after_otp"
            /\ UNCHANGED <<replied_multifactor, multifactor_error>>
       ELSE /\ replied_multifactor' = FindMultifactor(cause)
            /\ multifactor_error' = NULL
            /\ pc' = "otp_prompt"
            /\ UNCHANGED <<absentRead, session, message, ret>>
    /\ UNCHANGED <<trust, args, trusted_id, trusted_label, cause, reply,
                 otp_name, login_server, can_do_passcode, retryid,
                 config_trusted_id, configWrites, lastPost, nPosts,
                 ordPosts, trustCalls, tokenRead, prompts, lastPrompt,
                 dots, statusLine, redirected, ord_server, user_lower,
                 statusClears, setLog, calls>>

\* lines 289-293: prompt for the code and set its form field
otp_login_prompt ==
    /\ pc = "otp_prompt"
    /\ prompts < MaxPrompts
    /\ prompts' = prompts + 1
    /\ \E multifactor \in Codes \cup {NULL} :
          /\ lastPrompt' = [error |-> multifactor_error,
                            name |-> IF otp_name # NULL THEN otp_name
                                     ELSE multifactor_types[replied_multifactor].name,
                            user |-> user_lower,
                            code |-> multifactor]
          /\ IF multifactor = NULL
             THEN /\ session' = error_other("Aborted multifactor authentication.").session
                  /\ message' = error_other("Aborted multifactor authentication.").message
                  /\ ret' = error_other("Aborted multifactor authentication.").ret
                  /\ pc' = "after_otp"
                  /\ UNCHANGED args
             ELSE /\ args' = append_post(args,
                                 multifactor_types[replied_multifactor].post_var,
                                 multifactor)
                  /\ pc' = "otp_post"
                  /\ UNCHANGED <<session, message, ret>>
    /\ UNCHANGED <<trust, trusted_id, trusted_label, cause, reply, otp_name,
                 login_server, can_do_passcode, retryid,
                 replied_multifactor, multifactor_error,
                 config_trusted_id, configWrites, lastPost, nPosts,
                 ordPosts, trustCalls, tokenRead, dots, statusLine,
                 redirected, ord_server, user_lower, statusClears,
                 absentRead, setLog, calls>>

WrongCode_AnyCause(r, mf) == xml_error_cause(r, "cause") # NULL

\* line 308: next_cause && !strcmp(next_cause, replied_multifactor->error_failure_str)
WrongCode(r, mf) ==
    /\ xml_error_cause(r, "cause") # NULL
    /\ xml_error_cause(r, "cause") = multifactor_types[mf].error_failure_str

\* lines 295-311: submit the code
otp_login_post ==
    /\ pc = "otp_post"
    /\ nPosts < MaxPosts
    /\ \E r \in Replies :
        /\ reply' = r
        /\ lastPost' = Request(login_server, args, "otp", lastPost, reply)
        /\ nPosts' = nPosts + 1
        /\ IF ~r.present
           THEN /\ session' = error_post.session
                /\ message' = error_post.message
                /\ ret' = error_post.ret
                /\ pc' = "after_otp"
                /\ UNCHANGED multifactor_error
           ELSE IF xml_ok_session(r).valid
           THEN /\ session' = SessionAt(r, login_server)
                /\ ret' = TRUE
                /\ pc' = "after_otp"
                /\ UNCHANGED <<message, multifactor_error>>
           ELSE IF WrongCode(r, replied_multifactor)
           THEN /\ multifactor_error' = "Invalid multifactor code; please try again."
                /\ pc' = "otp_prompt"
                /\ UNCHANGED <<session, message, ret>>
           ELSE /\ session' = error_message(r).session
                /\ message' = error_message(r).message
                /\ ret' = error_message(r).ret
                /\ pc' = "after_otp"
                /\ UNCHANGED multifactor_error
    /\ UNCHANGED <<trust, args, trusted_id, trusted_label, cause, otp_name,
                 login_server, can_do_passcode, retryid,
                 replied_multifactor, config_trusted_id, configWrites,
                 ordPosts, trustCalls, tokenRead, prompts, lastPrompt,
                 dots, statusLine, redirected, ord_server, user_lower,
                 statusClears, absentRead, setLog, calls>>

after_otp_WithTrustCall ==
    /\ pc = "after_otp"
    /\ IF ret
       THEN UNCHANGED <<session, message>>
       ELSE /\ session' = error_other("An unspecified error occurred.").session
            /\ message' = error_other("An unspecified error occurred.").message
    /\ trustCalls' = trustCalls + (IF ret /\ trust /\ session.valid THEN 1 ELSE 0)
    /\ pc' = "done"
    /\ UNCHANGED <<trust, args, trusted_id, trusted_label, cause, reply,
                 otp_name, login_server, can_do_passcode, retryid,
                 replied_multifactor, multifactor_error,
                 config_trusted_id, configWrites, lastPost, nPosts,
                 ordPosts, tokenRead, prompts, lastPrompt, dots,
                 statusLine, redirected, ord_server, user_lower, ret,
                 statusClears, absentRead, setLog, calls>>

\* lastpass_login, lines 362-366
after_otp ==
    /\ pc = "after_otp"
    /\ IF ret
       THEN UNCHANGED <<session, message>>
       ELSE /\ session' = error_other("An unspecified error occurred.").session
            /\ message' = error_other("An unspecified error occurred.").message
    /\ pc' = "done"
    /\ UNCHANGED <<trust, args, trusted_id, trusted_label, cause, reply,
                 otp_name, login_server, can_do_passcode, retryid,
                 replied_multifactor, multifactor_error,
                 config_trusted_id, configWrites, lastPost, nPosts,
                 ordPosts, trustCalls, tokenRead, prompts, lastPrompt,
                 dots, statusLine, redirected, ord_server, user_lower,
                 ret, statusClears, absentRead, setLog, calls>>

(***************************************************************************)
(* Spec: one call of lastpass_login                                        *)
(***************************************************************************)
LoginIdle ==
    /\ trusted_label = NULL
    /\ cause = NULL
    /\ reply = NoReply
    /\ otp_name = NULL
    /\ login_server = NULL
    /\ session = NoSession
    /\ message = NULL
    /\ can_do_passcode = FALSE
    /\ retryid = NULL
    /\ replied_multifactor = 0
    /\ multifactor_error = NULL
    /\ lastPost = NoPost
    /\ nPosts = 0
    /\ ordPosts = 0
    /\ trustCalls = 0
    /\ tokenRead = "none"
    /\ prompts = 0
    /\ lastPrompt = NoPrompt
    /\ dots = 0
    /\ statusLine = "hidden"
    /\ redirected = FALSE
    /\ ord_server = NULL
    /\ user_lower = NULL
    /\ ret = FALSE
    /\ statusClears = 0
    /\ absentRead = FALSE

Init ==
    /\ pc = "start"
    /\ trust \in BOOLEAN
    /\ config_trusted_id \in PersistedIds
    /\ configWrites = 0
    /\ args = ZeroArgs
    /\ trusted_id = NULL
    /\ setLog = <<>>
    /\ calls = 0
    /\ LoginIdle

Next ==
    \/ Start
    \/ ordinary_login
    \/ after_ordinary
    \/ oob_login_begin
    \/ oob_login_poll
    \/ oob_login_out
    \/ after_oob
    \/ otp_login_begin
    \/ otp_login_prompt
    \/ otp_login_post
    \/ after_otp

Spec == Init /\ [][Next]_vars

(***************************************************************************)
(* SpecTrust: calculate_trust_id called again and again                    *)
(***************************************************************************)
HarnessIdle ==
    /\ pc = "harness"
    /\ LoginIdle

InitTrust ==
    /\ HarnessIdle
    /\ trust = FALSE
    /\ config_trusted_id \in PersistedIds
    /\ configWrites = 0
    /\ trusted_id = NULL
    /\ calls = 0
    /\ args = ZeroArgs
    /\ setLog = <<>>

\* one call calculate_trust_id(force); trust holds the argument of the call
CallTrustId ==
    /\ pc = "harness"
    /\ calls < MaxCalls
    /\ \E f \in BOOLEAN, stream \in RandStreams :
          LET t == calculate_trust_id(f, config_trusted_id, stream)
          IN /\ trust' = f
             /\ trusted_id' = t.ret
             /\ config_trusted_id' = t.store
             /\ configWrites' = configWrites + (IF t.wrote THEN 1 ELSE 0)
    /\ calls' = calls + 1
    /\ UNCHANGED <<pc, args, trusted_label, cause, reply, otp_name,
                 login_server, session, message, can_do_passcode,
                 retryid, replied_multifactor, multifactor_error,
                 lastPost, nPosts, ordPosts, trustCalls, tokenRead,
                 prompts, lastPrompt, dots, statusLine, redirected,
                 ord_server, user_lower, ret, statusClears, absentRead,
                 setLog>>

NextTrust == CallTrustId

SpecTrust == InitTrust /\ [][NextTrust]_vars

(***************************************************************************)
(* SpecPost: append_post called again and again on a zeroed array          *)
(***************************************************************************)
PostNames == {"username", "hash", "otp"}

PostValues == {"hash", "otp", "1"}

InitPost ==
    /\ HarnessIdle
    /\ trust = FALSE
    /\ config_trusted_id = NULL
    /\ configWrites = 0
    /\ trusted_id = NULL
    /\ calls = 0
    /\ args = ZeroArgs
    /\ setLog = <<>>

\* one call append_post(args, name, val)
SetField ==
    /\ pc = "harness"
    /\ Len(setLog) < MaxSets
    /\ \E name \in PostNames, val \in PostValues :
          /\ ~PostOverflows(args, name)
          /\ args' = append_post(args, name, val)
          /\ setLog' = Append(setLog, [name |-> name, val |-> val])
    /\ UNCHANGED <<pc, trust, trusted_id, trusted_label, cause, reply,
                 otp_name, login_server, session, message,
                 can_do_passcode, retryid, replied_multifactor,
                 multifactor_error, config_trusted_id, configWrites,
                 lastPost, nPosts, ordPosts, trustCalls, tokenRead,
                 prompts, lastPrompt, dots, statusLine, redirected,
                 ord_server, user_lower, ret, statusClears, absentRead,
                 calls>>

NextPost == SetField

SpecPost == InitPost /\ [][NextPost]_vars

(***************************************************************************)
(* Properties                                                              *)
(***************************************************************************)
Returned == pc = "done"

CharsOf(s) == {SubSeq(s, i, i) : i \in 1..Len(s)}

\* lowercase letters, uppercase letters, digits and the symbols !@#$
DocumentedChars ==
    CharsOf(LowerCase) \cup CharsOf(UpperCase) \cup CharsOf("0123456789")
        \cup CharsOf("!@#$")

\* C1: whenever lastpass_login returns, either it returns a session and no
\* error message was set, or it returns NULL and an error message was set.
C1_SessionXorMessage ==
    Returned => \/ (session.valid /\ message = NULL)
                \/ (~session.valid /\ message # NULL)

\* C1 witness: both kinds of return happen after a dialogue with the server:
\* here a login that polled out of band and then lost the transport.
C1_Witness ==
    /\ Returned
    /\ ~session.valid
    /\ lastPost.by = "oob"
    /\ message = "Unable to post login request."

\* C2: the trust-enrollment call is made only with the trust flag set and a
\* valid session from the out-of-band poller, never after the poller failed
\* (so session->token is never read from an absent session), and at most once.
C2_TrustOnlyWithSession ==
    /\ trustCalls <= 1
    /\ tokenRead \in {"none", "valid"}
    /\ trustCalls > 0 => (trust /\ session.valid)

\* C3 as stated: with the trust flag set, a login that succeeds through the
\* out-of-band poller or through the multifactor handler makes exactly one
\* trust-enrollment call; one that succeeds on the first attempt makes none.
C3_Original ==
    (Returned /\ trust /\ session.valid) =>
        trustCalls = (IF lastPost.by \in {"oob", "otp"} THEN 1 ELSE 0)

\* C3 amended: with the trust flag set, a login that succeeds through the
\* out-of-band poller makes exactly one trust-enrollment call before the
\* session is returned; a login that succeeds through the multifactor handler
\* or on the ordinary attempt makes none.
C3_TrustCallOnlyAfterOob ==
    (Returned /\ trust /\ session.valid) =>
        trustCalls = (IF lastPost.by = "oob" THEN 1 ELSE 0)

\* C3 witness: a trusted login that succeeded through the multifactor handler
\* and returned without a trust-enrollment call.
C3_Witness ==
    /\ Returned
    /\ trust
    /\ session.valid
    /\ lastPost.by = "otp"
    /\ trustCalls = 0

\* C4: ordinary_login issues at most two POSTs (the original and one
\* re-attempt against the alternate host), whatever the server answers.
C4_AtMostTwoOrdinaryPosts == ordPosts <= 2

\* C5: a returned session's server is the server its request was posted to;
\* after a redirection every later request goes to the alternate host and the
\* returned session.server is the alternate host.
C5_SessionServer ==
    /\ session.valid => session.server = lastPost.server
    /\ (redirected /\ nPosts >= 2) => lastPost.server = EuServer
    /\ (Returned /\ session.valid /\ redirected) => session.server = EuServer

\* C5 witness: a login redirected to the alternate host that succeeded later,
\* through the multifactor handler.
C5_Witness ==
    /\ Returned
    /\ session.valid
    /\ redirected
    /\ lastPost.by = "otp"
    /\ session.server = EuServer

RECURSIVE RefMap(_)
\* the insertion-ordered map a sequence of set(name, value) calls builds
RefMap(log) ==
    IF log = <<>> THEN <<>>
    ELSE LET m == RefMap(SubSeq(log, 1, Len(log) - 1))
             c == log[Len(log)]
             ks == {k \in 1..Len(m) : m[k].name = c.name}
         IN IF ks = {} THEN Append(m, c)
            ELSE [k \in 1..Len(m) |-> IF k \in ks THEN c ELSE m[k]]

\* C6: after any sequence of append_post calls the array is the insertion-
\* ordered map of the calls: unique names, each with its latest value, at the
\* position of its first set, as a well-formed alternation of name and value.
C6_InsertionOrderedMap ==
    /\ Pairs(args) = RefMap(setLog)
    /\ ArgLen(args, 1) = 2 * Len(RefMap(setLog))

\* a trust id was persisted before lastpass_login was called
PersistedBefore == config_trusted_id # NULL /\ configWrites = 0

\* C7 as stated: the first request carries uuid iff a trust id was persisted
\* before the call, and nothing is written to the configuration store before
\* the first request.
C7_Original ==
    nPosts = 1 =>
        /\ HasField(lastPost.args, "uuid") <=> PersistedBefore
        /\ configWrites = 0

\* C7 amended: the first request carries uuid iff a trust id was persisted
\* before the call or the trust flag is set; without the trust flag nothing is
\* generated or written; with it and nothing persisted, one id is generated and
\* written before the first request, and the uuid sent is the persisted id.
C7_UuidIffPersistedOrTrust ==
    nPosts = 1 =>
        /\ HasField(lastPost.args, "uuid") <=> (PersistedBefore \/ trust)
        /\ configWrites = (IF trust /\ ~PersistedBefore THEN 1 ELSE 0)
        /\ HasField(lastPost.args, "uuid") =>
              FieldValue(lastPost.args, "uuid") = config_trusted_id

\* C7 witness: a first request sent with the trust flag set and nothing
\* persisted before: the id was created and is sent as uuid.
C7_Witness ==
    /\ nPosts = 1
    /\ trust
    /\ configWrites = 1
    /\ HasField(lastPost.args, "uuid")

\* C8: no request of the ordinary attempt carries trustlabel; with the trust
\* flag set every later request (poll or multifactor resubmission) carries
\* trustlabel with the device label; without it no request carries it.
C8_TrustLabel ==
    /\ lastPost.by = "ordinary" => ~HasField(lastPost.args, "trustlabel")
    /\ (lastPost.by \in {"oob", "otp"} /\ trust) =>
          /\ trusted_label # NULL
          /\ FieldValue(lastPost.args, "trustlabel") = trusted_label
    /\ (lastPost.by \in {"oob", "otp"} /\ ~trust) =>
          ~HasField(lastPost.args, "trustlabel")

\* C8 witness: a second out-of-band poll of a trusted login, carrying the label.
C8_Witness ==
    /\ lastPost.by = "oob"
    /\ trust
    /\ dots >= 1
    /\ HasField(lastPost.args, "outofbandretry")
    /\ FieldValue(lastPost.args, "trustlabel") = "host - Linux 6.1"

WellFormedTrustId(id) ==
    /\ Len(id) = 32
    /\ \A i \in 1..Len(id) : SubSeq(id, i, i) \in DocumentedChars

C10_Step ==
    /\ (config_trusted_id = NULL /\ ~trust') =>
          /\ trusted_id' = NULL
          /\ config_trusted_id' = NULL
          /\ configWrites' = configWrites
    /\ (config_trusted_id = NULL /\ trust') =>
          /\ trusted_id' # NULL
          /\ config_trusted_id' = trusted_id'
          /\ configWrites' = configWrites + 1
    /\ config_trusted_id # NULL =>
          /\ trusted_id' = config_trusted_id
          /\ config_trusted_id' = config_trusted_id
          /\ configWrites' = configWrites

\* C10: with force=false and nothing persisted calculate_trust_id returns
\* nothing and writes nothing; with force=true and nothing persisted it
\* generates, persists and returns an id; every later call returns the
\* persisted id and never writes again: the store is written at most once.
C10_Idempotent == [](configWrites <= 1) /\ [][C10_Step]_vars

\* C10 witness: after an id was created, a later call without force returned
\* the persisted id.
C10_Witness ==
    /\ calls >= 2
    /\ configWrites = 1
    /\ ~trust
    /\ trusted_id # NULL
    /\ trusted_id = config_trusted_id


\* the form field each challenge cause posts the code under, as documented
ExpectedPostVar(c) ==
    CASE c \in {"googleauthrequired", "otprequired", "outofbandrequired",
                "microsoftauthrequired"} -> "otp"
      [] c = "sesameotprequired" -> "sesameotp"
      [] OTHER -> NULL

\* what a Failure built from the server's response says
ExpectedServerMessage(m) ==
    CASE m = NULL -> "Could not parse error message to login request."
      [] m = "Invalid password!" -> "Invalid password!"
      [] OTHER -> "Multifactor needed."

\* C11: the table lookup selects the entry whose require-cause equals the
\* cause exactly, so the code is posted under "otp" for googleauthrequired,
\* otprequired, outofbandrequired and microsoftauthrequired and under
\* "sesameotp" for sesameotprequired; for a cause matching no entry the
\* handler ends with a Failure carrying the server's message, without a prompt
\* and without a further request.
C11_ExactTableLookup ==
    /\ replied_multifactor # 0 =>
          /\ multifactor_types[replied_multifactor].error_str = cause
          /\ multifactor_types[replied_multifactor].post_var = ExpectedPostVar(cause)
    /\ pc \in {"otp_prompt", "otp_post"} => replied_multifactor # 0
    /\ lastPost.by = "otp" =>
          /\ ExpectedPostVar(cause) # NULL
          /\ HasField(lastPost.args, ExpectedPostVar(cause))
          /\ \A f \in {"otp", "sesameotp"} \ {ExpectedPostVar(cause)} :
                ~HasField(lastPost.args, f)
    /\ (pc \in {"after_otp", "done"} /\ cause # NULL
            /\ ExpectedPostVar(cause) = NULL) =>
          /\ replied_multifactor = 0
          /\ prompts = 0
          /\ nPosts = ordPosts
          /\ lastPost.by = "ordinary"
          /\ trustCalls = 0
          /\ ~session.valid
          /\ message = ExpectedServerMessage(reply.message)

\* C11 witness: a code posted under "sesameotp" for the cause
\* sesameotprequired, whose name contains the name of another entry's cause.
C11_Witness ==
    /\ lastPost.by = "otp"
    /\ cause = "sesameotprequired"
    /\ HasField(lastPost.args, "sesameotp")
    /\ ~HasField(lastPost.args, "otp")


\* the capability strings whose comma-separated tokens include "passcode"
\* and do not include "outofband"
PasscodeOnly == {"passcode", "outofband2,passcode"}

C12_Step ==
    (pc = "oob" /\ reply.present /\ reply.outofbandname # NULL
        /\ reply.capabilities # NULL) =>
       IF reply.capabilities \in PasscodeOnly
       THEN /\ pc' = "oob_out"
            /\ ret' = FALSE
            /\ otp_name' = reply.outofbandname \o " OTP"
            /\ args' = args
            /\ ~HasField(args', "outofbandrequest")
            /\ nPosts' = nPosts
            /\ statusLine' = "hidden"
       ELSE /\ pc' = "oob_poll"
            /\ FieldValue(args', "outofbandrequest") = "1"
            /\ otp_name' = reply.outofbandname
            /\ can_do_passcode' =
                  (reply.capabilities \in {"passcode,outofband"})

\* C12: given an out-of-band response with outofbandname and capabilities,
\* oob_login decides by exact comma-separated token membership: with
\* "passcode" and without "outofband" it signals fallback with the display
\* name suffixed by " OTP", sets no outofbandrequest and posts nothing; in
\* every other case it sets outofbandrequest=1 and starts polling.
C12_CapabilityDecision == [][C12_Step]_vars

\* C12 witness: the fallback taken for capabilities whose first token only
\* starts with "outofband".
C12_Witness ==
    /\ pc = "oob_out"
    /\ lastPost.by = "ordinary"
    /\ reply.capabilities = "outofband2,passcode"
    /\ otp_name = "Duo Push OTP"
    /\ ~ret


\* C13: during out-of-band polling each response whose cause is
\* "outofbandrequired" produces exactly one progress character and one further
\* poll, and that poll carries outofbandrequest=1, outofbandretry=1 and
\* outofbandretryid equal to the retryid of the most recent response; n such
\* responses followed by a valid session give n progress characters and
\* Success.
C13_PollProgress ==
    /\ pc = "oob_poll" => dots = nPosts - ordPosts
    /\ lastPost.by = "oob" =>
          /\ lastPost.k = nPosts - ordPosts
          /\ FieldValue(lastPost.args, "outofbandrequest") = "1"
          /\ pc # "oob_poll" => dots = lastPost.k - 1
    /\ (lastPost.by = "oob" /\ lastPost.k = 1) =>
          /\ ~HasField(lastPost.args, "outofbandretry")
          /\ ~HasField(lastPost.args, "outofbandretryid")
    /\ (lastPost.by = "oob" /\ lastPost.k >= 2) =>
          /\ lastPost.priorBy = "oob"
          /\ lastPost.prior.cause = "outofbandrequired"
          /\ FieldValue(lastPost.args, "outofbandretry") = "1"
          /\ FieldValue(lastPost.args, "outofbandretryid") = lastPost.prior.retryid
    /\ (pc = "oob_poll" /\ lastPost.by = "oob") =>
          /\ reply.present /\ ~reply.ok
          /\ reply.cause = "outofbandrequired"
          /\ FieldValue(args, "outofbandrequest") = "1"
          /\ FieldValue(args, "outofbandretry") = "1"
          /\ FieldValue(args, "outofbandretryid") = reply.retryid
    /\ (Returned /\ lastPost.by = "oob" /\ reply.present /\ reply.ok) =>
          /\ session.valid
          /\ message = NULL
          /\ dots = lastPost.k - 1

\* C13 witness: two pending responses with retryids, then a session: two
\* progress characters, the last poll carrying the second retryid, Success.
C13_Witness ==
    /\ Returned
    /\ session.valid
    /\ lastPost.by = "oob"
    /\ lastPost.k = 3
    /\ dots = 2
    /\ FieldValue(lastPost.args, "outofbandretryid") = "r2"


\* the wrong-code cause of each challenge cause, as documented
ExpectedWrongCodeCause(c) ==
    CASE c = "googleauthrequired" -> "googleauthfailed"
      [] c = "otprequired" -> "otpfailed"
      [] c = "sesameotprequired" -> "sesameotpfailed"
      [] c = "outofbandrequired" -> "multifactorresponsefailed"
      [] c = "microsoftauthrequired" -> "microsoftauthfailed"
      [] OTHER -> NULL

\* number of requests otp_login has sent
OtpPosts == IF lastPost.by = "otp" THEN lastPost.k ELSE 0

InvalidCodeNote == "Invalid multifactor code; please try again."

\* C14: the loop of otp_login continues if and only if the response to a
\* code submission has the wrong-code cause of the selected challenge; every
\* request of the handler is preceded by exactly one prompt whose entered code
\* is the value of the challenge's form field in that request; the first
\* prompt has no error annotation and every later one has the invalid-code
\* annotation; an abort ends the loop with "Aborted multifactor
\* authentication." without a request; a transport failure, a valid session,
\* any other cause or no cause ends the loop.
C14_OtpLoop ==
    /\ prompts >= 1 =>
          /\ lastPrompt.error = (IF prompts = 1 THEN NULL ELSE InvalidCodeNote)
          /\ prompts = OtpPosts + (IF pc = "otp_post" \/ lastPrompt.code = NULL
                                   THEN 1 ELSE 0)
    /\ prompts = 0 => OtpPosts = 0
    /\ pc = "otp_post" =>
          /\ lastPrompt.code # NULL
          /\ FieldValue(args, ExpectedPostVar(cause)) = lastPrompt.code
    /\ (lastPost.by = "otp" /\ lastPrompt.code # NULL /\ pc # "otp_post") =>
          FieldValue(lastPost.args, ExpectedPostVar(cause)) = lastPrompt.code
    /\ (prompts >= 1 /\ lastPrompt.code = NULL) =>
          /\ pc \in {"after_otp", "done"}
          /\ message = "Aborted multifactor authentication."
          /\ ~session.valid
    /\ (pc = "otp_prompt" /\ lastPost.by = "otp") =>
          /\ reply.present /\ ~reply.ok
          /\ reply.cause = ExpectedWrongCodeCause(cause)
    /\ (lastPost.by = "otp" /\ pc \in {"after_otp", "done"}
            /\ lastPrompt.code # NULL) =>
          \/ ~reply.present
          \/ reply.ok /\ session.valid
          \/ ~reply.ok /\ reply.cause # ExpectedWrongCodeCause(cause)

\* C14 witness: a second prompt, annotated, after a submission answered with
\* the wrong-code cause, its code set for the next request.
C14_Witness ==
    /\ pc = "otp_post"
    /\ prompts = 2
    /\ lastPost.by = "otp"
    /\ lastPost.k = 1
    /\ lastPrompt.error = InvalidCodeNote
    /\ FieldValue(args, "otp") = lastPrompt.code
    /\ FieldValue(lastPost.args, "otp") # lastPrompt.code


\* the last poll of oob_login got no response
PollLost == lastPost.by = "oob" /\ ~reply.present /\ pc # "oob_poll"

FallbackFields(a) ==
    /\ FieldValue(a, "outofbandrequest") = "0"
    /\ FieldValue(a, "outofbandretry") = "0"
    /\ FieldValue(a, "outofbandretryid") = ""

\* C15: when a poll fails at transport, with the passcode capability the
\* poller sets outofbandrequest=0, outofbandretry=0 and outofbandretryid="",
\* suffixes the display name with " OTP" and signals fallback, and every
\* multifactor request sent afterwards carries those three values; without
\* the capability the login ends with Failure("Unable to post login
\* request."), no session, and no further request or prompt.
C15_PollTransportFailure ==
    /\ (PollLost /\ can_do_passcode) =>
          /\ FallbackFields(args)
          /\ otp_name = "Duo Push" \o " OTP"
          /\ pc \in {"oob_out", "after_oob"} => ~ret
          /\ pc # "crashed"
          /\ trustCalls = 0
    /\ (lastPost.by = "otp" /\ statusLine = "cleared") =>
          FallbackFields(lastPost.args)
    /\ (PollLost /\ ~can_do_passcode) =>
          /\ pc \in {"oob_out", "after_oob", "done"}
          /\ message = "Unable to post login request."
          /\ ~session.valid
          /\ prompts = 0
          /\ trustCalls = 0
          /\ tokenRead = "none"

\* the same restricted to logins without the trust flag
C15_WithoutTrust == trust \/ C15_PollTransportFailure


C16_Step ==
    (statusLine = "shown" /\ pc # "oob_poll") =>
        /\ statusLine' = "cleared"
        /\ statusClears' = statusClears + 1
        /\ nPosts' = nPosts
        /\ prompts' = prompts
        /\ trustCalls' = trustCalls
        /\ pc' = "after_oob"

C16_State ==
    /\ statusLine = "shown" => (pc \in {"oob_poll", "oob_out"} /\ statusClears = 0)
    /\ statusLine = "cleared" => statusClears = 1
    /\ (pc = "oob_poll" \/ lastPost.by = "oob") => statusLine # "hidden"
    /\ (lastPost.by = "oob" /\ pc \notin {"oob_poll", "oob_out"}) =>
          statusLine = "cleared"

\* C16: once the out-of-band status line has been shown it is cleared exactly
\* once before oob_login returns, on every exit of the poll loop, and no
\* request, prompt or trust-enrollment call happens between the exit of the
\* loop and the clear.
C16_StatusCleared == [](C16_State) /\ [][C16_Step]_vars

\* C16 witness: the multifactor prompt reached after a poll lost its
\* transport, with the status line cleared.
C16_Witness ==
    /\ pc = "otp_prompt"
    /\ lastPost.by = "oob"
    /\ ~reply.present
    /\ statusLine = "cleared"
    /\ statusClears = 1


\* C17: every login.php request goes to the primary server or to
\* "lastpass.eu"; a response whose server field has any other value never
\* changes the target host and the outcome is decided by its cause field
\* ("Unable to determine login failure cause." when absent); a valid session
\* takes precedence over a server field, and a server field equal to
\* "lastpass.eu" takes precedence over a cause field.
C17_TargetHosts ==
    /\ nPosts >= 1 => lastPost.server \in {LASTPASS_SERVER, EuServer}
    /\ pc = "ordinary" => ord_server \in {LASTPASS_SERVER, EuServer}
    /\ lastPost.server = EuServer => redirected
    /\ (pc = "after_ordinary" /\ reply.present /\ reply.ok) =>
          /\ session.valid
          /\ session.server = lastPost.server
          /\ ret
    /\ (pc = "after_ordinary" /\ reply.present /\ ~reply.ok) =>
          /\ reply.server # EuServer
          /\ ord_server = lastPost.server
          /\ reply.cause = NULL =>
                /\ ret
                /\ ~session.valid
                /\ message = "Unable to determine login failure cause."
          /\ reply.cause # NULL =>
                /\ ~ret
                /\ cause = reply.cause
                /\ login_server = lastPost.server
                /\ message = NULL
    /\ (pc = "ordinary" /\ nPosts >= 1) =>
          /\ reply.present /\ ~reply.ok
          /\ reply.server = EuServer
          /\ ord_server = EuServer
          /\ ~session.valid

\* C17 witness: a response naming another server and a multifactor cause,
\* after which the login continues at the primary server.
C17_Witness ==
    /\ pc = "after_ordinary"
    /\ reply.server = "lastpass.example"
    /\ reply.cause = "googleauthrequired"
    /\ ~ret
    /\ login_server = LASTPASS_SERVER
    /\ lastPost.server = LASTPASS_SERVER


\* the names lastpass_login, oob_login and otp_login pass to append_post
FormFieldNames ==
    {"xml", "username", "hash", "iterations", "includeprivatekeyenc", "method",
     "outofbandsupported", "alpfragmentid", "calculatedfragmentid", "uuid",
     "sesameotp", "otp", "trustlabel",
     "outofbandrequest", "outofbandretry", "outofbandretryid"}

\* C18: the form-field array never overflows: in every reachable state of a
\* login it holds at most 15 name/value pairs, every write of append_post
\* lands inside the 33 slots, and a NULL terminator remains after the last
\* pair.
C18_ArgsBounded ==
    /\ Len(Pairs(args)) <= 15
    /\ ArgLen(args, 1) <= 30
    /\ \A i \in (ArgLen(args, 1) + 1)..ArgSlots : args[i] = NULL
    /\ \A name \in FormFieldNames : ~PostOverflows(args, name)

\* C18 witness: fifteen pairs: the initial fields with fragment and uuid,
\* trustlabel, the three out-of-band fields and the multifactor code.
C18_Witness ==
    /\ Len(Pairs(args)) = 15
    /\ ArgLen(args, 1) = 30
    /\ HasField(args, "calculatedfragmentid")
    /\ HasField(args, "trustlabel")
    /\ HasField(args, "outofbandretryid")
    /\ HasField(args, "otp")


\* C19: a field is extracted from the last server response only while a
\* response is present, at every read by oob_login, otp_login and
\* error_message; in particular, after a fallback caused by a transport
\* failure, otp_login does not read the response before it has posted a
\* request and received an answer.
C19_NoAbsentReplyRead ==
    /\ ~absentRead
    /\ pc = "oob" => reply.present
    /\ (pc = "otp" /\ ~reply.present) =>
          /\ FindMultifactor(cause) # 0
          /\ cause = "outofbandrequired"
    /\ (pc \in {"otp_prompt", "otp_post"} /\ ~reply.present) =>
          (lastPost.by = "oob" /\ can_do_passcode)

\* C19 witness: otp_login past its table lookup, about to prompt, with no
\* response left by the poller.
C19_Witness ==
    /\ pc = "otp_prompt"
    /\ ~reply.present
    /\ lastPost.by = "oob"
    /\ prompts = 0
    /\ replied_multifactor # 0
    /\ ~absentRead

\* C20: otp_login returns true on each of its exits (valid session, abort,
\* transport failure, unrecognized cause, other server cause), so
\* lastpass_login never reaches its fallthrough: no login returns the message
\* "An unspecified error occurred.".
C20_OtpAlwaysFinal ==
    /\ pc = "after_otp" => ret
    /\ message # "An unspecified error occurred."
    /\ (Returned /\ ~session.valid /\ (prompts >= 1 \/ lastPost.by = "otp")) =>
          message \in {"Aborted multifactor authentication.",
                       "Unable to post login request.",
                       ExpectedServerMessage(reply.message)}

\* C20 witness: a login returned from otp_login after a code submission was
\* answered with a cause other than the wrong-code cause.
C20_Witness ==
    /\ Returned
    /\ lastPost.by = "otp"
    /\ reply.present
    /\ reply.cause = "unknownemail"
    /\ message = "Invalid password!"
    /\ ~session.valid

====
